---- MODULE Spec2Model ----
(***************************************************************************)
(* Model of the MrDice federation layer:                                   *)
(*   - distribute_quota_fair, the two-level fair quota allocator           *)
(*     (database/optimade_database/optimade_test/utils.py);                *)
(*   - search_databases_parallel_with_errors, the fan-out executor         *)
(*     (search/searcher.py);                                               *)
(*   - fetch_structures_from_db (core/server.py), mrdice_search            *)
(*     (server.py) and the debug search endpoint (debug_server.py).        *)
(***************************************************************************)
EXTENDS Integers, Sequences, FiniteSets, TLC

VARIABLES
    stats,      \* capacity table: sequence of clauses, each a sequence of URL capacities
    target,     \* n_results handed to distribute_quota_fair
    plan,       \* the returned plan (<<>> is the empty mapping {})
    qpc,        \* "call" before distribute_quota_fair runs, "done" after it returned
    entry,      \* the endpoint serving the request: "fetch", "mrdice" or "debug"
    pc,         \* position of the request handler
    db_names,   \* fetch_structures_from_db: the sources queried, in order
    routes,     \* mrdice_search / debug search: plan_routes(material_type)
    n_results,  \* the normalized result count
    filters,    \* the filters used for ranking (replaced by the relaxed ones on a successful retry)
    relaxed_filters, \* the filters of relax_to_element_only_filter, once the retry started
    elements_options, \* the cleaned elements_options (<<>> when absent)
    calls,      \* the fan-out calls in flight: one per element option, else one
    round,      \* number of fan-out rounds started by fetch_structures_from_db
    attempt,    \* number of iterations of the degrade loop started
    all_results,
    errors,
    fallback_level,
    response,   \* the response returned to the caller (NoResponse until then)
    log,        \* result count of every completed attempt or round, in order
    sel_ranked, \* _take_n_results_with_sources: the ranked list passed in
    sel_n,      \* _take_n_results_with_sources: n_results
    sel_names,  \* _take_n_results_with_sources: db_names
    sel_out,    \* _take_n_results_with_sources: the returned list (NotCalled before)
    hse_error,  \* handle_search_error: the exception (its message and class name)
    hse_results, \* handle_search_error: the results of the failed round
    hse_params, \* handle_search_error: the parameters of the failed round
    hse_reply,  \* what the correction oracle answers when asked
    hse_calls,  \* number of calls of correct_parameters so far
    hse_ret,    \* handle_search_error: the returned pair (NotCalled before)
    dg_impl,    \* degrade_filters: which of the two definitions is called
    dg_original, \* degrade_filters: the caller's filters before the first call
    dg_filters, \* degrade_filters: the caller's filters object as it is now
    dg_attempt, \* degrade_filters: the attempt of the latest call (0 before the first)
    dg_out,     \* degrade_filters: the returned dict (NotCalled before)
    oracle,     \* what chat_json gave relax_to_element_only_filter (NotCalled before)
    sv_results, \* fetch_structures_with_filter: norm_results, one entry per provider
    sv_files,   \* fetch_structures_with_filter: the files of every save_structures call so far
    au_token,   \* _MCPStreamableHttpProxy: the configured token (absent when not configured)
    au_query,   \* the `token` parameter of the request's query string, as raw bytes
    au_header,  \* the Authorization header of the request, as raw bytes
    au_outcome  \* what the proxy did with the request: "none" yet, "401" or "forwarded"

qvars == <<stats, target, plan, qpc>>

rvars == <<entry, pc, db_names, routes, n_results, filters, relaxed_filters,
           elements_options, calls, round, attempt, all_results, errors, fallback_level,
           response, log>>

fvars == <<sel_ranked, sel_n, sel_names, sel_out,
           hse_error, hse_results, hse_params, hse_reply, hse_calls, hse_ret>>

dvars == <<dg_impl, dg_original, dg_filters, dg_attempt, dg_out>>

svars == <<sv_results, sv_files>>

avars == <<au_token, au_query, au_header, au_outcome>>

xvars == <<dvars, svars, avars>>

ovars == <<oracle>>

vars == <<stats, target, plan, qpc, entry, pc, db_names, routes, n_results, filters,
          relaxed_filters, elements_options, calls, round, attempt, all_results, errors, fallback_level,
          response, log, sel_ranked, sel_n, sel_names, sel_out,
          hse_error, hse_results, hse_params, hse_reply, hse_calls, hse_ret,
          dg_impl, dg_original, dg_filters, dg_attempt, dg_out, oracle,
          sv_results, sv_files, au_token, au_query, au_header, au_outcome>>

\* ---------------------------------------------------------------------------
\* Bounds of the allocator inputs
\* ---------------------------------------------------------------------------
MaxCells == 4
MaxCap == 3
MaxK == 7

\* Bounds of the request inputs: sources per request, results per retriever reply,
\* retrieval tasks in flight in one round
MaxSources == 2
MaxItems == 2
MaxTasks == 4

\* Bounds of the inputs of _take_n_results_with_sources: length of the ranked
\* list, requested count
MaxRanked == 3
MaxTarget == 4

\* Bound of the inputs of handle_search_error: words in an exception message
MaxWords == 2

\* Bound of the inputs of save_structures: structures returned by all URLs together
MaxStructs == 3

\* Bound of the inputs of the MCP proxy: bytes in a token value
MaxBytes == 2

\* config.py
DEFAULT_N_RESULTS == 5
MAX_N_RESULTS == 20

\* ---------------------------------------------------------------------------
\* Helpers on sequences
\* ---------------------------------------------------------------------------
RECURSIVE SumSeq(_)
SumSeq(s) == IF s = <<>> THEN 0 ELSE Head(s) + SumSeq(Tail(s))

Min2(a, b) == IF a <= b THEN a ELSE b

Max2(a, b) == IF a >= b THEN a ELSE b

\* s with the element at position i (1-based) removed: list.pop(i)
RemoveAt(s, i) == SubSeq(s, 1, i - 1) \o SubSeq(s, i + 1, Len(s))

\* ---------------------------------------------------------------------------
\* distribute_quota_fair
\* ---------------------------------------------------------------------------
\* clause_caps[c] = sum(stats[c].values())
ClauseCaps(st) == [c \in 1..Len(st) |-> SumSeq(st[c])]

\* active_clauses = [c for c in clauses if clause_caps[c] > 0], in insertion order
RECURSIVE ActiveFrom(_, _)
ActiveFrom(st, c) ==
    IF c > Len(st) THEN <<>>
    ELSE IF SumSeq(st[c]) > 0 THEN <<c>> \o ActiveFrom(st, c + 1)
    ELSE ActiveFrom(st, c + 1)

ActiveClauses(st) == ActiveFrom(st, 1)

\* The empty mapping in place of the initial plan
EmptyPlan(st) == <<>>

\* plan = {c: {u: 0 for u in stats[c]} for c in clauses}
ZeroPlan(st) == [c \in 1..Len(st) |-> [u \in 1..Len(st[c]) |-> 0]]

\* Position (0-based) of clause c in the list of active clauses
RECURSIVE IndexIn(_, _)
IndexIn(seq, x) == IF Head(seq) = x THEN 0 ELSE 1 + IndexIn(Tail(seq), x)

\* Step 1: base + remainder across active clauses, capped by clause capacity
ClauseTargetsGreedy(st, n) ==
    LET act == ActiveClauses(st)
        caps == ClauseCaps(st)
    IN  [c \in 1..Len(st) |->
            IF \E i \in 1..Len(act) : act[i] = c
            THEN Min2(caps[c], n)
            ELSE 0]

RECURSIVE FirstFitFrom(_, _, _)
FirstFitFrom(caps, c, n) ==
    IF c > Len(caps) THEN <<>>
    ELSE <<Min2(caps[c], n)>> \o FirstFitFrom(caps, c + 1, n - Min2(caps[c], n))

ClauseTargetsFirstFit(st, n) == FirstFitFrom(ClauseCaps(st), 1, n)

ClauseTargets(st, n) ==
    LET act == ActiveClauses(st)
        caps == ClauseCaps(st)
        n_active == Len(act)
        base_clause == n \div n_active
        rem_clause == n % n_active
    IN  [c \in 1..Len(st) |->
            IF \E i \in 1..Len(act) : act[i] = c
            THEN Min2(caps[c], base_clause + (IF IndexIn(act, c) < rem_clause THEN 1 ELSE 0))
            ELSE 0]

\* Step 2, equal split: assigned[ui] = min(want, caps[ui])
EqualSplitUncapped(caps, quota_c) ==
    LET n_urls == Len(caps)
        base_url == quota_c \div n_urls
        rem_url == quota_c % n_urls
    IN  [ui \in 1..n_urls |-> base_url + (IF ui - 1 < rem_url THEN 1 ELSE 0)]

EqualSplit(caps, quota_c) ==
    LET n_urls == Len(caps)
        base_url == quota_c \div n_urls
        rem_url == quota_c % n_urls
    IN  [ui \in 1..n_urls |->
            Min2(base_url + (IF ui - 1 < rem_url THEN 1 ELSE 0), caps[ui])]

\* Step 2, intra-clause water-fill: the while loop over residuals (ui is 1-based here)
RECURSIVE IntraFill(_, _, _, _)
IntraFill(assigned, residuals, left, ui) ==
    IF left > 0 /\ (\E i \in 1..Len(residuals) : residuals[i] > 0)
    THEN LET nxt == (ui % Len(residuals)) + 1
         IN  IF residuals[ui] > 0
             THEN IntraFill([assigned EXCEPT ![ui] = @ + 1],
                            [residuals EXCEPT ![ui] = @ - 1],
                            left - 1, nxt)
             ELSE IntraFill(assigned, residuals, left, nxt)
    ELSE assigned

\* Step 2 for one clause: the list `assigned` written back to plan[c]
AssignClause(caps, quota_c) ==
    IF quota_c <= 0 THEN [ui \in 1..Len(caps) |-> 0]
    ELSE LET assigned == EqualSplit(caps, quota_c)
             left == Max2(0, quota_c - SumSeq(assigned))
         IN  IF left > 0
             THEN IntraFill(assigned,
                            [i \in 1..Len(caps) |-> caps[i] - assigned[i]],
                            left, 1)
             ELSE assigned

PlanAfterStep2(st, n) ==
    LET tg == ClauseTargets(st, n)
    IN  [c \in 1..Len(st) |-> AssignClause(st[c], tg[c])]

\* residual_urls[c]: the [url, residual] pairs with residual > 0, in URL order.
\* A clause is a key of residual_urls exactly when its list is non-empty.
RECURSIVE ResidualList(_, _, _)
ResidualList(caps, row, u) ==
    IF u > Len(caps) THEN <<>>
    ELSE IF caps[u] - row[u] > 0
         THEN <<[u |-> u, r |-> caps[u] - row[u]]>> \o ResidualList(caps, row, u + 1)
         ELSE ResidualList(caps, row, u + 1)

\* give_one_to_clause(c) on the water-filling state w
GiveOneToClause(w, c) ==
    LET urls == w.residual_urls[c]
        idx == (w.next_url_idx[c] % Len(urls)) + 1
        u == urls[idx].u
        r == urls[idx].r - 1
        popped == RemoveAt(urls, idx)
    IN  [w EXCEPT
            !.plan[c][u] = @ + 1,
            !.totals[c] = @ + 1,
            !.residual_urls[c] = IF r = 0 THEN popped
                                 ELSE [urls EXCEPT ![idx].r = r],
            !.next_url_idx[c] = IF r = 0
                                THEN (IF popped = <<>> THEN 0 ELSE (idx - 1) % Len(popped))
                                ELSE idx % Len(urls)]

\* One pass of `for c in active_clauses` inside the water-filling while loop
RECURSIVE FillPass(_, _, _)
FillPass(w, cs, min_total) ==
    IF cs = <<>> \/ w.remaining = 0 THEN w
    ELSE LET c == Head(cs)
         IN  IF w.residual_urls[c] # <<>> /\ w.totals[c] = min_total
             THEN FillPass([GiveOneToClause(w, c) EXCEPT !.remaining = @ - 1,
                                                         !.progressed = TRUE],
                           Tail(cs), min_total)
             ELSE FillPass(w, Tail(cs), min_total)

\* The largest element in place of the smallest
SetMax(S) == CHOOSE x \in S : \A y \in S : x >= y

\* min(...)
SetMin(S) == CHOOSE x \in S : \A y \in S : x <= y

\* The clause-level water-filling while loop
RECURSIVE WaterFill(_, _)
WaterFill(w, act) ==
    LET candidates == {act[i] : i \in {j \in 1..Len(act) : w.residual_urls[act[j]] # <<>>}}
    IN  IF w.remaining > 0 /\ candidates # {}
        THEN LET min_total == SetMin({w.totals[c] : c \in candidates})
                 w2 == FillPass([w EXCEPT !.progressed = FALSE], act, min_total)
             IN  IF w2.progressed THEN WaterFill(w2, act) ELSE w2
        ELSE w

\* Step 3 skipped: what the function would return without clause-level water-filling
DistributeQuotaFairNoStep3(st, n) ==
    IF st = <<>> \/ n <= 0 THEN <<>>
    ELSE IF ActiveClauses(st) = <<>> THEN ZeroPlan(st)
    ELSE PlanAfterStep2(st, n)

DistributeQuotaFair(st, n) ==
    IF st = <<>> \/ n <= 0 THEN <<>>
    ELSE IF ActiveClauses(st) = <<>> THEN ZeroPlan(st)
    ELSE LET p2 == PlanAfterStep2(st, n)
             totals == [c \in 1..Len(st) |-> SumSeq(p2[c])]
             remaining == n - SumSeq(totals)
         IN  IF remaining <= 0 THEN p2
             ELSE WaterFill([plan |-> p2,
                             totals |-> totals,
                             residual_urls |-> [c \in 1..Len(st) |-> ResidualList(st[c], p2[c], 1)],
                             next_url_idx |-> [c \in 1..Len(st) |-> 0],
                             remaining |-> remaining,
                             progressed |-> FALSE],
                            ActiveClauses(st)).plan

\* ---------------------------------------------------------------------------
\* Inputs of the allocator: capacity tables as normalize_and_collect builds them
\* (every clause has at least one URL, every capacity is a list length >= 0)
\* ---------------------------------------------------------------------------
Rows(m) == [1..m -> 0..MaxCap]

RECURSIVE TablesWith(_)
TablesWith(cells) ==
    {<<>>} \cup
    UNION {{<<row>> \o t : row \in Rows(m), t \in TablesWith(cells - m)} : m \in 1..cells}

\* The documented scenario: capacities {alpha: 5, beta: 3}, target 6
ScenarioInput == <<<<<<5>>, <<3>>>>, 6>>

QuotaInputs ==
    (TablesWith(MaxCells) \X ((0 - 1)..MaxK)) \cup {ScenarioInput}

NoResponse == [kind |-> "none"]

\* The request part of the state while only the allocator is exercised
IdleRequest ==
    /\ entry = "none"
    /\ pc = "idle"
    /\ db_names = <<>>
    /\ routes = <<>>
    /\ n_results = 0
    /\ filters = [formula |-> "", elements |-> {}]
    /\ relaxed_filters = [formula |-> "", elements |-> {}]
    /\ elements_options = <<>>
    /\ calls = <<>>
    /\ round = 0
    /\ attempt = 0
    /\ all_results = <<>>
    /\ errors = <<>>
    /\ fallback_level = 0
    /\ response = NoResponse
    /\ log = <<>>

NotCalled == [kind |-> "none"]

\* The state of the two helper functions while they are not exercised
IdleFunctions ==
    /\ sel_ranked = <<>>
    /\ sel_n = 0
    /\ sel_names = <<>>
    /\ sel_out = NotCalled
    /\ hse_error = [msg |-> <<>>, class |-> ""]
    /\ hse_results = <<>>
    /\ hse_params = [formula |-> "", elements |-> {}]
    /\ hse_reply = [kind |-> "none"]
    /\ hse_calls = 0
    /\ hse_ret = NotCalled

\* The state of degrade_filters while it is not exercised
IdleDegrade ==
    /\ dg_impl = "none"
    /\ dg_original = <<>>
    /\ dg_filters = <<>>
    /\ dg_attempt = 0
    /\ dg_out = NotCalled

\* The state of save_structures while it is not exercised
IdleSave ==
    /\ sv_results = <<>>
    /\ sv_files = <<>>

\* An absent token, query parameter or header
Absent == [present |-> FALSE, scheme |-> "", value |-> <<>>]

\* The state of the MCP proxy while it is not exercised
IdleAuth ==
    /\ au_token = Absent
    /\ au_query = Absent
    /\ au_header = Absent
    /\ au_outcome = "none"

IdleExtras == IdleDegrade /\ IdleSave /\ IdleAuth /\ oracle = NotCalled

InitQuota ==
    /\ \E inp \in QuotaInputs : stats = inp[1] /\ target = inp[2]
    /\ plan = <<>>
    /\ qpc = "call"
    /\ IdleRequest
    /\ IdleFunctions
    /\ IdleExtras

\* The call of distribute_quota_fair(stats, n_results)
Allocate ==
    /\ qpc = "call"
    /\ plan' = DistributeQuotaFair(stats, target)
    /\ qpc' = "done"
    /\ UNCHANGED <<stats, target>>
    /\ UNCHANGED rvars
    /\ UNCHANGED fvars
    /\ UNCHANGED xvars
    /\ UNCHANGED ovars

NextQuota == Allocate

SpecQuota == InitQuota /\ [][NextQuota]_vars

\* ---------------------------------------------------------------------------
\* Search results and retrievers
\* ---------------------------------------------------------------------------
\* Names with a retriever in _get_retriever (two of the four) and one without
Registered == {"bohriumpublic", "optimade"}

SourceNames == Registered \cup {"mofdb"}

\* _get_retriever(db_name) is not None
HasRetriever(db) == db \in Registered

\* The retrievers whose fetch wraps the backend request in
\* `try: ... except Exception: return []`
CatchesRequestFailure(db) == db = "bohriumpublic"

\* The records a backend can hold: normalize_result(...) of its items
BackendItems(db) ==
    IF db = "optimade"
    THEN {[source |-> db, id |-> "1", name |-> "x", formula |-> "F", elements |-> {"Fe"}],
          [source |-> db, id |-> "1", name |-> "y", formula |-> "G", elements |-> {"Fe", "O"}]}
    ELSE IF db = "bohriumpublic"
    THEN {[source |-> db, id |-> "", name |-> "x", formula |-> "F", elements |-> {"O"}]}
    ELSE {}

SeqsUpTo(S, n) == UNION {[1..k -> S] : k \in 0..n}

\* The lists retriever.fetch of db can return
FetchLists(db) == SeqsUpTo(BackendItems(db), MaxItems)

\* Four distinct records of one source: the documented degrade scenario
FourResults ==
    [i \in 1..4 |-> [source |-> "bohriumpublic", id |-> <<"1", "2", "3", "4">>[i],
                     name |-> "x", formula |-> "F", elements |-> {"Fe"}]]

\* str(e) of the exceptions a retriever raises, as a list of words: empty for
\* e.g. TimeoutError(), or the message of a timed-out request
ErrorTexts == {<<>>, <<"timeout">>}

\* ---------------------------------------------------------------------------
\* search/searcher.py: the fan-out executor
\* ---------------------------------------------------------------------------
\* A coroutine _search_single_db(db_name, ...) handed to asyncio.gather
\* (failed: the backend request of the retriever did not succeed)
RunningTask ==
    [st |-> "running", results |-> <<>>, raised |-> FALSE, msg |-> <<>>, failed |-> FALSE]

\* search_databases_parallel_with_errors up to `await asyncio.gather(...)`
NewCall(names) ==
    [tasks |-> [i \in 1..Len(names) |-> RunningTask],
     returned |-> FALSE,
     db_results |-> <<>>,
     db_errors |-> <<>>]

\* asyncio.gather(*tasks, return_exceptions=True) resolves when every task is done
GatherReadyAny(call) == \E i \in 1..Len(call.tasks) : call.tasks[i].st = "done"

GatherReady(call) == \A i \in 1..Len(call.tasks) : call.tasks[i].st = "done"

\* db_results[db_name] = search_results for every gathered tuple
CollectResultsDropFailed(call, names) ==
    [n \in {names[i] : i \in {j \in 1..Len(names) : ~call.tasks[j].raised}} |->
        call.tasks[CHOOSE i \in 1..Len(names) : names[i] = n].results]

CollectResults(call, names) ==
    [n \in {names[i] : i \in 1..Len(names)} |->
        call.tasks[CHOOSE i \in 1..Len(names) : names[i] = n].results]

\* db_errors[db_name] = str(error) for the tuples that carry an exception
CollectErrors(call, names) ==
    [n \in {names[i] : i \in {j \in 1..Len(names) : call.tasks[j].raised}} |->
        call.tasks[CHOOSE i \in 1..Len(names) : names[i] = n].msg]

\* dict.get(key, default)
Get(d, k, default) == IF k \in DOMAIN d THEN d[k] ELSE default

\* d[k] = v
Put(d, k, v) == [x \in (DOMAIN d) \cup {k} |-> IF x = k THEN v ELSE d[x]]

\* ---------------------------------------------------------------------------
\* core/server.py: merge, rank, select
\* ---------------------------------------------------------------------------
\* _merge_results_multi_db: one result of every list per round, in db_names order
RECURSIVE MergeRound(_, _, _)
MergeRound(lists, idx, k) ==
    IF k > Len(lists) THEN <<>>
    ELSE (IF idx <= Len(lists[k]) THEN <<lists[k][idx]>> ELSE <<>>)
         \o MergeRound(lists, idx, k + 1)

RECURSIVE MergeFrom(_, _)
MergeFrom(lists, idx) ==
    LET added == MergeRound(lists, idx, 1)
    IN  IF added = <<>> THEN <<>> ELSE added \o MergeFrom(lists, idx + 1)

MergeResultsMultiDb(db_results, names) ==
    MergeFrom([i \in 1..Len(names) |-> Get(db_results, names[i], <<>>)], 1)

\* for _db_name, _results in db_results.items(): all_results.extend(_results)
RECURSIVE ExtendAll(_, _, _)
ExtendAll(db_results, names, k) ==
    IF k > Len(names) THEN <<>>
    ELSE Get(db_results, names[k], <<>>) \o ExtendAll(db_results, names, k + 1)

\* The dedup key of the element-options merge: (source, id or name)
OptionKey(r) == <<r.source, IF r.id # "" THEN r.id ELSE r.name>>

\* Append the results of `list` whose key is not in seen_keys yet
RECURSIVE AppendUnseen(_, _)
AppendUnseen(acc, list) ==
    IF list = <<>> THEN acc
    ELSE IF \E i \in 1..Len(acc) : OptionKey(acc[i]) = OptionKey(Head(list))
         THEN AppendUnseen(acc, Tail(list))
         ELSE AppendUnseen(Append(acc, Head(list)), Tail(list))

\* The merge over `gathered` of the element-options branch
RECURSIVE MergeOptions(_, _, _, _)
MergeOptions(cs, names, o, acc) ==
    IF o > Len(cs) THEN acc
    ELSE MergeOptions(cs, names, o + 1,
                      AppendUnseen(acc, ExtendAll(cs[o].db_results, names, 1)))

\* errors[k] = errors.get(k, "") + ("; " if errors.get(k) else "") + v
RECURSIVE AddErrors(_, _, _, _)
AddErrors(errs, errs_i, names, k) ==
    IF k > Len(names) THEN errs
    ELSE IF names[k] \in DOMAIN errs_i
         THEN AddErrors(Put(errs, names[k],
                            LET old == Get(errs, names[k], <<>>)
                            IN  old \o (IF old # <<>> THEN <<";">> ELSE <<>>) \o errs_i[names[k]]),
                        errs_i, names, k + 1)
         ELSE AddErrors(errs, errs_i, names, k + 1)

RECURSIVE MergeOptionErrors(_, _, _, _)
MergeOptionErrors(cs, names, o, errs) ==
    IF o > Len(cs) THEN errs
    ELSE MergeOptionErrors(cs, names, o + 1, AddErrors(errs, cs[o].db_errors, names, 1))

\* ranker.py score_result (no keywords are extracted in the modelled requests)
ScoreResult(r, f) ==
    (IF f.formula # "" /\ r.formula = f.formula THEN 2 ELSE 0)
    + Cardinality(f.elements \cap r.elements)

\* list.sort(key=score, reverse=True) is stable: insert behind every element of
\* greater or equal score
RECURSIVE InsertRankedBeforeEqual(_, _, _)
InsertRankedBeforeEqual(sorted, r, f) ==
    IF sorted = <<>> THEN <<r>>
    ELSE IF ScoreResult(Head(sorted), f) > ScoreResult(r, f)
         THEN <<Head(sorted)>> \o InsertRankedBeforeEqual(Tail(sorted), r, f)
         ELSE <<r>> \o sorted

RECURSIVE InsertRanked(_, _, _)
InsertRanked(sorted, r, f) ==
    IF sorted = <<>> THEN <<r>>
    ELSE IF ScoreResult(Head(sorted), f) >= ScoreResult(r, f)
         THEN <<Head(sorted)>> \o InsertRanked(Tail(sorted), r, f)
         ELSE <<r>> \o sorted

RECURSIVE RankInto(_, _, _)
RankInto(sorted, results, f) ==
    IF results = <<>> THEN sorted
    ELSE RankInto(InsertRanked(sorted, Head(results), f), Tail(results), f)

RankResults(results, f) == RankInto(<<>>, results, f)

\* ranked[:n]
TakeUncapped(s, n) == s

Take(s, n) == SubSeq(s, 1, Min2(n, Len(s)))

\* add_one of _take_n_results_with_sources: key (source, id, name)
AddOne(out, r) ==
    IF \E i \in 1..Len(out) :
           <<out[i].source, out[i].id, out[i].name>> = <<r.source, r.id, r.name>>
    THEN out
    ELSE Append(out, r)

\* for db in db_names: add_one(by_source[db][0])
RECURSIVE OnePerSource(_, _, _, _)
OnePerSource(out, ranked, names, k) ==
    IF k > Len(names) THEN out
    ELSE LET idxs == {i \in 1..Len(ranked) : ranked[i].source = names[k]}
         IN  IF idxs = {} THEN OnePerSource(out, ranked, names, k + 1)
             ELSE OnePerSource(AddOne(out, ranked[SetMin(idxs)]), ranked, names, k + 1)

\* for r in ranked: if len(out) >= n_results: break; add_one(r)
RECURSIVE FillByRank(_, _, _)
FillByRank(out, ranked, n) ==
    IF ranked = <<>> \/ Len(out) >= n THEN out
    ELSE FillByRank(AddOne(out, Head(ranked)), Tail(ranked), n)

\* Selection without the one-per-source pass
TakeNByRankOnly(ranked, n, names) ==
    IF ranked = <<>> \/ n <= 0 THEN <<>>
    ELSE Take(FillByRank(<<>>, ranked, n), n)

TakeNResultsWithSources(ranked, n, names) ==
    IF ranked = <<>> \/ n <= 0 THEN <<>>
    ELSE IF Len(names) <= 1 THEN Take(ranked, n)
    ELSE Take(FillByRank(OnePerSource(<<>>, ranked, names, 1), ranked, n), n)

\* search/router.py normalize_n_results
NormalizeNResults(n) ==
    IF n < 1 THEN DEFAULT_N_RESULTS ELSE Min2(n, MAX_N_RESULTS)

\* any(str(v or "").strip() for v in errors.values())
AnyErrorText(errs) == \E k \in DOMAIN errs : errs[k] # <<>>

\* The "code" of the fetch_structures_from_db response
ResponseCode(all, errs) ==
    IF Len(all) > 0 /\ ~AnyErrorText(errs) THEN 0
    ELSE IF Len(all) > 0 THEN 1
    ELSE IF DOMAIN errs = {} THEN 0 - 9999
    ELSE 0 - 9998

\* Postprocessing of fetch_structures_from_db: rank, select, build_response
FetchResponse(all, f, errs, level, n, names) ==
    LET ranked == RankResults(all, f)
        chosen == IF Len(names) > 1 THEN TakeNResultsWithSources(ranked, n, names)
                  ELSE Take(ranked, n)
    IN  [kind |-> "response",
         n_found |-> Len(all),
         returned |-> Len(chosen),
         fallback_level |-> level,
         results |-> chosen,
         code |-> ResponseCode(all, errs),
         errors |-> errs]

\* The response to an empty query
EmptyQueryResponse(e) ==
    [kind |-> "response", n_found |-> 0, returned |-> 0, fallback_level |-> 0,
     results |-> <<>>, code |-> IF e = "fetch" THEN 0 - 1 ELSE 0, errors |-> <<>>]

\* Postprocessing of mrdice_search and of the debug endpoint
SearchResponse(all, f, level, n) ==
    LET ranked == Take(RankResults(all, f), n)
    IN  [kind |-> "response", n_found |-> Len(all), returned |-> Len(ranked),
         fallback_level |-> level, results |-> ranked, code |-> 0, errors |-> <<>>]

\* router.py plan_routes
PlanRoutes(material_type) ==
    IF material_type = "mof" THEN <<"mofdb", "mofdbsql">>
    ELSE IF material_type = "crystal" THEN <<"bohriumpublic", "openlam", "optimade">>
    ELSE <<"bohriumpublic", "openlam", "optimade", "mofdb", "mofdbsql">>

\* `for attempt in [1, 2, 3]`
AttemptListLonger == <<1, 2, 3, 4>>

AttemptList == <<1, 2, 3>>

\* `if all_results: break`
NeverBreak(all) == FALSE

BreakOnResults(all) == all # <<>>

\* ---------------------------------------------------------------------------
\* Requests: inputs
\* ---------------------------------------------------------------------------
\* target_databases of preprocess_query: lists of distinct source names
DbNameLists ==
    {s \in UNION {[1..k -> SourceNames] : k \in 1..MaxSources} :
        \A i, j \in 1..Len(s) : i # j => s[i] # s[j]}

\* n_results as sent by the caller: missing/invalid, small, above the maximum
RawNResults == {0, 1, 2, 25}

\* Filters as extracted from the query
FilterChoices == {[formula |-> "", elements |-> {}],
                  [formula |-> "F", elements |-> {"O"}]}

\* elements_options after cleaning: absent, or two element lists
ElementsOptionChoices == {<<>>, <<{"Fe"}, {"O"}>>}

\* What chat_json gives relax_to_element_only_filter: an LlmError (request
\* failed, bad status, body without choices), a null message content, a content
\* that is no JSON object, an object without a filters dict, one without an
\* element list, element-only filters, or element-only filters next to an
\* expanded_query that is not a string
RelaxReplies ==
    {[kind |-> k, elements |-> {}] :
         k \in {"llm_error", "null_content", "not_json", "no_filters", "no_elements"}}
    \cup {[kind |-> k, elements |-> {"Fe"}] : k \in {"elements", "bad_expanded_query"}}

\* relax_to_element_only_filter: (None, None), element-only filters, or the
\* AttributeError of _strip_json(None) or of (expanded_query or "").strip(),
\* which `except LlmError` does not catch
RelaxToElementOnlyFilter(reply) ==
    IF reply.kind \in {"null_content", "bad_expanded_query"} THEN [ok |-> FALSE, raised |-> TRUE, elements |-> {}]
    ELSE IF reply.kind = "elements"
         THEN [ok |-> TRUE, raised |-> FALSE, elements |-> reply.elements]
         ELSE [ok |-> FALSE, raised |-> FALSE, elements |-> {}]

MaterialTypes == {"mof", "crystal", "unknown"}

Init ==
    /\ stats = <<>>
    /\ target = 0
    /\ plan = <<>>
    /\ qpc = "idle"
    /\ entry \in {"fetch", "mrdice", "debug"}
    /\ pc = "start"
    /\ IF entry = "fetch"
       THEN /\ db_names \in DbNameLists
            /\ routes = <<>>
            /\ elements_options \in ElementsOptionChoices
            /\ Len(elements_options) * Len(db_names) <= MaxTasks
       ELSE /\ db_names = <<>>
            /\ routes \in {PlanRoutes(mt) : mt \in MaterialTypes}
            /\ elements_options = <<>>
    /\ n_results \in {NormalizeNResults(n) : n \in RawNResults}
    /\ filters \in FilterChoices
    /\ relaxed_filters = [formula |-> "", elements |-> {}]
    /\ calls = <<>>
    /\ round = 0
    /\ attempt = 0
    /\ all_results = <<>>
    /\ errors = <<>>
    /\ fallback_level = 0
    /\ response = NoResponse
    /\ log = <<>>
    /\ IdleFunctions
    /\ IdleExtras

\* ---------------------------------------------------------------------------
\* Requests: actions
\* ---------------------------------------------------------------------------
\* `if not query or not query.strip()`: the empty query is answered at once
RejectEmptyQuery ==
    /\ pc = "start"
    /\ response' = EmptyQueryResponse(entry)
    /\ pc' = "done"
    /\ UNCHANGED <<entry, db_names, routes, n_results, filters, relaxed_filters, elements_options, calls,
                   round, attempt, all_results, errors, fallback_level, log>>
    /\ UNCHANGED qvars
    /\ UNCHANGED fvars
    /\ UNCHANGED xvars
    /\ UNCHANGED ovars

\* fetch_structures_from_db up to the first await: one fan-out call, or one per
\* element option, handed to asyncio.gather
StartFanout ==
    /\ entry = "fetch"
    /\ pc = "start"
    /\ calls' = IF elements_options # <<>>
                THEN [o \in 1..Len(elements_options) |-> NewCall(db_names)]
                ELSE <<NewCall(db_names)>>
    /\ round' = 1
    /\ pc' = "gather"
    /\ UNCHANGED <<entry, db_names, routes, n_results, filters, relaxed_filters,
                   elements_options, attempt, all_results, errors, fallback_level, response, log>>
    /\ UNCHANGED qvars
    /\ UNCHANGED fvars
    /\ UNCHANGED xvars
    /\ UNCHANGED ovars

FanoutFrame ==
    /\ UNCHANGED <<entry, pc, db_names, routes, n_results, filters, relaxed_filters,
                   elements_options, round, attempt, all_results, errors, fallback_level, response, log>>
    /\ UNCHANGED qvars
    /\ UNCHANGED fvars
    /\ UNCHANGED xvars
    /\ UNCHANGED ovars

\* _search_single_db: retriever.fetch returned a list
TaskReturn(o, i) ==
    /\ pc = "gather"
    /\ calls[o].tasks[i].st = "running"
    /\ HasRetriever(db_names[i])
    /\ \E list \in FetchLists(db_names[i]) :
           calls' = [calls EXCEPT ![o].tasks[i] =
                        [st |-> "done", results |-> list, raised |-> FALSE, msg |-> <<>>,
                         failed |-> FALSE]]
    /\ FanoutFrame

\* _search_single_db: retriever.fetch raised; `except Exception` returns (db, [], e)
TaskRaise(o, i) ==
    /\ pc = "gather"
    /\ calls[o].tasks[i].st = "running"
    /\ HasRetriever(db_names[i])
    /\ \E text \in ErrorTexts :
           calls' = [calls EXCEPT ![o].tasks[i] =
                        [st |-> "done", results |-> <<>>, raised |-> TRUE, msg |-> text,
                         failed |-> TRUE]]
    /\ FanoutFrame

\* _search_single_db: no retriever for the name, return (db, [], None)
TaskNoRetriever(o, i) ==
    /\ pc = "gather"
    /\ calls[o].tasks[i].st = "running"
    /\ ~HasRetriever(db_names[i])
    /\ calls' = [calls EXCEPT ![o].tasks[i] =
                    [st |-> "done", results |-> <<>>, raised |-> FALSE, msg |-> <<>>,
                     failed |-> FALSE]]
    /\ FanoutFrame

\* _search_single_db: the backend request inside retriever.fetch failed and
\* fetch caught the exception itself (`except Exception: return []`)
TaskRequestFailed(o, i) ==
    /\ pc = "gather"
    /\ calls[o].tasks[i].st = "running"
    /\ HasRetriever(db_names[i])
    /\ CatchesRequestFailure(db_names[i])
    /\ calls' = [calls EXCEPT ![o].tasks[i] =
                    [st |-> "done", results |-> <<>>, raised |-> FALSE, msg |-> <<>>,
                     failed |-> TRUE]]
    /\ FanoutFrame

\* search_databases_parallel_with_errors after the gather: build and return
\* (db_results, db_errors)
CallReturn(o) ==
    /\ pc = "gather"
    /\ ~calls[o].returned
    /\ GatherReady(calls[o])
    /\ calls' = [calls EXCEPT ![o].returned = TRUE,
                              ![o].db_results = CollectResults(calls[o], db_names),
                              ![o].db_errors = CollectErrors(calls[o], db_names)]
    /\ FanoutFrame

\* "; ".join(f"{k}: {v}" for k, v in errors_2.items())
RECURSIVE JoinErrors(_, _, _)
JoinErrors(errs, names, k) ==
    IF k > Len(names) THEN <<>>
    ELSE IF names[k] \in DOMAIN errs
         THEN LET rest == JoinErrors(errs, names, k + 1)
              IN  <<names[k], ":">> \o errs[names[k]]
                  \o (IF rest # <<>> THEN <<";">> ELSE <<>>) \o rest
         ELSE JoinErrors(errs, names, k + 1)

\* all_results of one plain fan-out call
PlainMerge(call) ==
    IF Len(db_names) > 1 THEN MergeResultsMultiDb(call.db_results, db_names)
    ELSE ExtendAll(call.db_results, db_names, 1)

\* The element-only retry is started: zero results and the oracle gave elements
ShouldRelax(all, relaxed) == Len(all) = 0 /\ relaxed.ok

\* fetch_structures_from_db resumed after the strict round: merge, then either
\* start the relaxed retry or postprocess and return
JoinStrict ==
    /\ entry = "fetch"
    /\ pc = "gather"
    /\ round = 1
    /\ \A o \in 1..Len(calls) : calls[o].returned
    /\ LET opts == elements_options # <<>>
           all1 == IF opts THEN MergeOptions(calls, db_names, 1, <<>>)
                   ELSE PlainMerge(calls[1])
           errs1 == IF opts THEN MergeOptionErrors(calls, db_names, 1, <<>>)
                    ELSE calls[1].db_errors
           f1 == IF opts THEN [filters EXCEPT !.elements = elements_options[1]] ELSE filters
       IN  IF Len(all1) # 0
           THEN /\ log' = Append(log, Len(all1))
                /\ errors' = errs1
                /\ all_results' = all1
                /\ filters' = f1
                /\ response' = FetchResponse(all1, f1, errs1, 0, n_results, db_names)
                /\ pc' = "done"
                /\ UNCHANGED <<calls, round, relaxed_filters, oracle>>
           ELSE \E reply \in RelaxReplies :
                  LET relaxed == RelaxToElementOnlyFilter(reply)
                  IN  /\ oracle' = reply
                      /\ log' = Append(log, Len(all1))
                      /\ errors' = errs1
                      /\ all_results' = all1
                      /\ filters' = f1
                      /\ IF relaxed.raised
                         THEN /\ pc' = "raised"
                              /\ UNCHANGED <<calls, round, relaxed_filters, response>>
                         ELSE IF ShouldRelax(all1, relaxed)
                         THEN /\ calls' = <<NewCall(db_names)>>
                              /\ round' = 2
                              /\ relaxed_filters' = [formula |-> "", elements |-> relaxed.elements]
                              /\ UNCHANGED <<pc, response>>
                         ELSE /\ response' = FetchResponse(all1, f1, errs1, 0, n_results, db_names)
                              /\ pc' = "done"
                              /\ UNCHANGED <<calls, round, relaxed_filters>>
    /\ UNCHANGED <<entry, db_names, routes, n_results, elements_options, attempt,
                   fallback_level>>
    /\ UNCHANGED qvars
    /\ UNCHANGED fvars
    /\ UNCHANGED xvars

\* fetch_structures_from_db resumed after the relaxed round: merge, postprocess, return
JoinRelaxed ==
    /\ entry = "fetch"
    /\ pc = "gather"
    /\ round = 2
    /\ calls[1].returned
    /\ LET merged == PlainMerge(calls[1])
           all2 == IF Len(db_names) > 1 THEN merged ELSE all_results \o merged
           errs2 == IF DOMAIN calls[1].db_errors # {}
                    THEN Put(errors, "relaxed_search",
                             JoinErrors(calls[1].db_errors, db_names, 1))
                    ELSE errors
           level == IF Len(all2) > 0 THEN 1 ELSE fallback_level
           f2 == IF Len(all2) > 0 THEN relaxed_filters ELSE filters
       IN  /\ all_results' = all2
           /\ errors' = errs2
           /\ fallback_level' = level
           /\ filters' = f2
           /\ log' = Append(log, Len(all2))
           /\ response' = FetchResponse(all2, f2, errs2, level, n_results, db_names)
           /\ pc' = "done"
    /\ UNCHANGED <<entry, db_names, routes, n_results, relaxed_filters, elements_options,
                   calls, round, attempt>>
    /\ UNCHANGED qvars
    /\ UNCHANGED fvars
    /\ UNCHANGED xvars
    /\ UNCHANGED ovars

\* One iteration of the degrade loop of mrdice_search / the debug endpoint in
\* which no retriever call raises
LoopAttempt ==
    /\ entry \in {"mrdice", "debug"}
    /\ pc \in {"start", "loop"}
    /\ attempt < Len(AttemptList)
    /\ \E list \in (IF \E k \in 1..Len(routes) : routes[k] = "bohriumpublic"
                    THEN FetchLists("bohriumpublic") \cup {FourResults}
                    ELSE {<<>>}) :
         LET all == all_results \o list
             level == AttemptList[attempt + 1] - 1
         IN  /\ attempt' = attempt + 1
             /\ fallback_level' = level
             /\ all_results' = all
             /\ log' = Append(log, Len(list))
             /\ IF BreakOnResults(all) \/ attempt + 1 = Len(AttemptList)
                THEN /\ response' = SearchResponse(all, filters, level, n_results)
                     /\ pc' = "done"
                ELSE /\ pc' = "loop"
                     /\ UNCHANGED response
    /\ UNCHANGED <<entry, db_names, routes, n_results, filters, relaxed_filters, elements_options, calls,
                   round, errors>>
    /\ UNCHANGED qvars
    /\ UNCHANGED fvars
    /\ UNCHANGED xvars
    /\ UNCHANGED ovars

\* An iteration in which retriever.fetch raises: the exception leaves
\* mrdice_search; the debug endpoint turns it into an HTTP 500
LoopAttemptRaise ==
    /\ entry \in {"mrdice", "debug"}
    /\ pc \in {"start", "loop"}
    /\ attempt < Len(AttemptList)
    /\ \E k \in 1..Len(routes) : routes[k] = "bohriumpublic"
    /\ attempt' = attempt + 1
    /\ fallback_level' = AttemptList[attempt + 1] - 1
    /\ IF entry = "debug"
       THEN /\ response' = [kind |-> "http_error", status |-> 500]
            /\ pc' = "done"
       ELSE /\ pc' = "raised"
            /\ UNCHANGED response
    /\ UNCHANGED <<entry, db_names, routes, n_results, filters, relaxed_filters, elements_options, calls,
                   round, all_results, errors, log>>
    /\ UNCHANGED qvars
    /\ UNCHANGED fvars
    /\ UNCHANGED xvars
    /\ UNCHANGED ovars

\* A task of the fan-out after the caller's cancellation: its coroutine got
\* CancelledError (a BaseException, which no `except Exception` catches) and its
\* results, if any, are dropped
EndedTask(state) ==
    [st |-> state, results |-> <<>>, raised |-> FALSE, msg |-> <<>>, failed |-> FALSE]

\* The caller cancels fetch_structures_from_db while it awaits asyncio.gather.
\* gather cancels its children; a child whose retriever.fetch already runs in a
\* worker thread of run_in_executor (those in `inflight`) cannot stop that
\* thread, a child that has not reached the executor never starts it; what the
\* children of the cancelled gather had fetched is dropped
Cancel ==
    /\ entry = "fetch"
    /\ pc = "gather"
    /\ \E o \in 1..Len(calls) : ~calls[o].returned
    /\ \E inflight \in SUBSET {<<o, i>> \in (1..Len(calls)) \X (1..Len(db_names)) :
                                  /\ calls[o].tasks[i].st = "running"
                                  /\ HasRetriever(db_names[i])} :
          calls' = [o \in 1..Len(calls) |->
                       IF calls[o].returned THEN calls[o]
                       ELSE
                       [tasks |-> [i \in 1..Len(db_names) |->
                                      IF <<o, i>> \in inflight THEN EndedTask("thread")
                                      ELSE IF calls[o].tasks[i].st = "running"
                                           THEN EndedTask("cancelled")
                                           ELSE EndedTask("done")],
                        returned |-> calls[o].returned,
                        db_results |-> <<>>,
                        db_errors |-> <<>>]]
    /\ pc' = "cancelled"
    /\ UNCHANGED <<entry, db_names, routes, n_results, filters, relaxed_filters,
                   elements_options, round, attempt, all_results, errors, fallback_level, response, log>>
    /\ UNCHANGED qvars
    /\ UNCHANGED fvars
    /\ UNCHANGED xvars
    /\ UNCHANGED ovars

\* retriever.fetch returns in its worker thread after the cancellation; nobody
\* awaits the result
ThreadFinish(o, i) ==
    /\ pc = "cancelled"
    /\ calls[o].tasks[i].st = "thread"
    /\ calls' = [calls EXCEPT ![o].tasks[i] = EndedTask("finished")]
    /\ FanoutFrame

Next ==
    \/ RejectEmptyQuery
    \/ StartFanout
    \/ \E o \in 1..Len(calls) : \E i \in 1..Len(db_names) : TaskReturn(o, i)
    \/ \E o \in 1..Len(calls) : \E i \in 1..Len(db_names) : TaskRaise(o, i)
    \/ \E o \in 1..Len(calls) : \E i \in 1..Len(db_names) : TaskNoRetriever(o, i)
    \/ \E o \in 1..Len(calls) : \E i \in 1..Len(db_names) : TaskRequestFailed(o, i)
    \/ \E o \in 1..Len(calls) : CallReturn(o)
    \/ JoinStrict
    \/ JoinRelaxed
    \/ LoopAttempt
    \/ LoopAttemptRaise
    \/ Cancel
    \/ \E o \in 1..Len(calls) : \E i \in 1..Len(db_names) : ThreadFinish(o, i)

Spec == Init /\ [][Next]_vars

\* ---------------------------------------------------------------------------
\* _take_n_results_with_sources on its own
\* ---------------------------------------------------------------------------
\* Three of ALL_DATABASE_NAMES
SelectSources == {"bohriumpublic", "openlam", "optimade"}

\* Two records per source
SelectItems ==
    {[source |-> s, id |-> i, name |-> "x", formula |-> "F", elements |-> {"Fe"}] :
        s \in SelectSources, i \in {"1", "2"}}

\* db_names with several sources: lists of two or more distinct names
SelectNameLists ==
    {s \in UNION {[1..k -> SelectSources] : k \in 2..Cardinality(SelectSources)} :
        \A i, j \in 1..Len(s) : i # j => s[i] # s[j]}

InitSelect ==
    /\ stats = <<>>
    /\ target = 0
    /\ plan = <<>>
    /\ qpc = "idle"
    /\ IdleRequest
    /\ sel_ranked \in SeqsUpTo(SelectItems, MaxRanked)
    /\ sel_n \in 0..MaxTarget
    /\ sel_names \in SelectNameLists
    /\ sel_out = NotCalled
    /\ hse_error = [msg |-> <<>>, class |-> ""]
    /\ hse_results = <<>>
    /\ hse_params = [formula |-> "", elements |-> {}]
    /\ hse_reply = [kind |-> "none"]
    /\ hse_calls = 0
    /\ hse_ret = NotCalled
    /\ IdleExtras

\* The call _take_n_results_with_sources(ranked, n_results, db_names)
TakeCall ==
    /\ sel_out = NotCalled
    /\ sel_out' = [kind |-> "list",
                   list |-> TakeNResultsWithSources(sel_ranked, sel_n, sel_names)]
    /\ UNCHANGED <<sel_ranked, sel_n, sel_names,
                   hse_error, hse_results, hse_params, hse_reply, hse_calls, hse_ret>>
    /\ UNCHANGED qvars
    /\ UNCHANGED rvars
    /\ UNCHANGED xvars
    /\ UNCHANGED ovars

NextSelect == TakeCall

SpecSelect == InitSelect /\ [][NextSelect]_vars

\* ---------------------------------------------------------------------------
\* core/error.py, core/postprocessor.py: error classification and
\* handle_search_error
\* ---------------------------------------------------------------------------
\* The keywords of classify_error that occur in a (lower-cased) word of a
\* message or in a (lower-cased) exception class name
KeywordsIn(word) ==
    IF word = "invalid" THEN {"invalid"}
    ELSE IF word = "timeout" THEN {"timeout"}
    ELSE IF word \in {"key", "keyerror"} THEN {"key"}
    ELSE IF word = "typeerror" THEN {"type"}
    ELSE {}

\* `keyword in error_str`
InMessage(error, keywords) ==
    \E i \in 1..Len(error.msg) : KeywordsIn(error.msg[i]) \cap keywords # {}

\* core/error.py classify_error
ClassifyErrorType(error) ==
    IF InMessage(error, {"invalid", "validation", "parameter", "format"})
    THEN "invalid_params"
    ELSE IF InMessage(error, {"network", "connection", "timeout", "http", "request"})
    THEN "network_error"
    ELSE IF \/ InMessage(error, {"logic", "index", "key", "attribute", "type"})
            \/ KeywordsIn(error.class) \cap {"logic", "index", "key", "attribute", "type"} # {}
    THEN "logic_error"
    ELSE "unknown"

\* core/postprocessor.py classify_error
ClassifyError(error, results) ==
    IF results = <<>> THEN "no_results" ELSE ClassifyErrorType(error)

ShouldRetryWithCorrection(error_type) == error_type \in {"invalid_params", "no_results"}

\* correct_parameters: (corrected_params, was_corrected); an LlmError of the
\* oracle is caught and gives the fallback (params, False)
CorrectParameters(params, reply) ==
    IF reply.kind = "corrected"
    THEN [params |-> reply.filters, was_corrected |-> TRUE]
    ELSE [params |-> params, was_corrected |-> FALSE]

\* The value handle_search_error returns: (corrected_params_or_none, should_retry),
\* None being the empty list here, and the number of oracle calls it made
HandleSearchError(params, error, results, reply) ==
    LET error_type == ClassifyError(error, results)
        corrected == CorrectParameters(params, reply)
    IN  IF ~ShouldRetryWithCorrection(error_type)
        THEN [kind |-> "pair", params |-> <<>>, should_retry |-> FALSE, asked |-> 0]
        ELSE IF error_type = "invalid_params" /\ corrected.was_corrected
        THEN [kind |-> "pair", params |-> <<corrected.params>>, should_retry |-> TRUE,
              asked |-> 1]
        ELSE IF error_type = "no_results"
        THEN [kind |-> "pair", params |-> <<>>, should_retry |-> TRUE, asked |-> 0]
        ELSE [kind |-> "pair", params |-> <<>>, should_retry |-> FALSE, asked |-> 1]

\* Words of exception messages and lower-cased exception class names
MessageWords == {"invalid", "timeout", "key", "failed"}

ErrorClasses == {"valueerror", "keyerror", "timeouterror"}

\* What chat_json gives correct_parameters: a correction, a reply without
\* "corrected", or an LlmError
OracleReplies ==
    {[kind |-> "corrected", filters |-> f] : f \in FilterChoices}
    \cup {[kind |-> k, filters |-> [formula |-> "", elements |-> {}]] :
              k \in {"declined", "llm_error"}}

InitHandle ==
    /\ stats = <<>>
    /\ target = 0
    /\ plan = <<>>
    /\ qpc = "idle"
    /\ IdleRequest
    /\ sel_ranked = <<>>
    /\ sel_n = 0
    /\ sel_names = <<>>
    /\ sel_out = NotCalled
    /\ hse_error \in [msg : SeqsUpTo(MessageWords, MaxWords), class : ErrorClasses]
    /\ hse_results \in FetchLists("bohriumpublic")
    /\ hse_params \in FilterChoices
    /\ hse_reply \in OracleReplies
    /\ hse_calls = 0
    /\ hse_ret = NotCalled
    /\ IdleExtras

\* The call handle_search_error(query, params, error, results, record)
HandleCall ==
    /\ hse_ret = NotCalled
    /\ LET ret == HandleSearchError(hse_params, hse_error, hse_results, hse_reply)
       IN  /\ hse_ret' = [kind |-> "pair", params |-> ret.params,
                          should_retry |-> ret.should_retry]
           /\ hse_calls' = hse_calls + ret.asked
    /\ UNCHANGED <<sel_ranked, sel_n, sel_names, sel_out,
                   hse_error, hse_results, hse_params, hse_reply>>
    /\ UNCHANGED qvars
    /\ UNCHANGED rvars
    /\ UNCHANGED xvars
    /\ UNCHANGED ovars

NextHandle == HandleCall

SpecHandle == InitHandle /\ [][NextHandle]_vars

\* ---------------------------------------------------------------------------
\* router.py and core/postprocessor.py: degrade_filters
\* ---------------------------------------------------------------------------
\* Python's None
NoneValue == "None"

\* The keys of the filters of a request (llm_expand.py), and the value the
\* modelled requests put under each
FilterKeys == {"formula", "elements", "band_gap", "space_group", "time_range", "energy"}

FilterValue(k) ==
    IF k = "formula" THEN "F"
    ELSE IF k = "elements" THEN <<"Fe">>
    ELSE IF k = "band_gap" THEN [min |-> "1.0", max |-> NoneValue]
    ELSE IF k = "space_group" THEN "Pm-3m"
    ELSE IF k = "time_range" THEN [start |-> "2020", end |-> NoneValue]
    ELSE [min |-> NoneValue, max |-> "0.5"]

FilterDicts == {[k \in ks |-> FilterValue(k)] : ks \in SUBSET FilterKeys}

\* Objects live in a heap (a sequence of dicts) and are named by their index.
\* `f = filters`: no new object
DictAlias(heap, ref) == [heap |-> heap, ref |-> ref]

\* `f = dict(filters or {})`: a new object with the same items
DictCopy(heap, ref) == [heap |-> Append(heap, heap[ref]), ref |-> Len(heap) + 1]

\* f[k] = v
SetItem(h, k, v) == [heap |-> [h.heap EXCEPT ![h.ref] = Put(@, k, v)], ref |-> h.ref]

\* {k: v for k, v in f.items() if k in keep}: a new object
KeepOnly(h, keep) ==
    LET f == h.heap[h.ref]
    IN  [heap |-> Append(h.heap, [k \in (DOMAIN f) \cap keep |-> f[k]]),
         ref |-> Len(h.heap) + 1]

\* a dict display {...}: a new object
NewDict(h, d) == [heap |-> Append(h.heap, d), ref |-> Len(h.heap) + 1]

\* attempt 2 of both definitions
ClearStrict(h) ==
    SetItem(SetItem(SetItem(h, "band_gap", [min |-> NoneValue, max |-> NoneValue]),
                    "space_group", NoneValue),
            "time_range", [start |-> NoneValue, end |-> NoneValue])

\* router.py degrade_filters; the result names the heap after the call and the
\* returned object
RouterDegradeFilters(heap, ref, att) ==
    LET f == DictCopy(heap, ref)
    IN  IF att = 1 THEN f
        ELSE IF att = 2 THEN ClearStrict(f)
        ELSE KeepOnly(f, {"elements", "formula"})

\* `if f.get(k)` for the list under "elements" and the string under "formula":
\* the key is present with a non-empty value
Truthy(d, k) == k \in DOMAIN d /\ d[k] # (IF k = "elements" THEN <<>> ELSE "")

\* core/postprocessor.py degrade_filters
DegradeFilters(heap, ref, att) ==
    LET f == DictCopy(heap, ref)
        d == f.heap[f.ref]
    IN  IF att = 1 THEN f
        ELSE IF att = 2 THEN ClearStrict(f)
        ELSE IF att = 3 THEN KeepOnly(f, {"elements", "formula"})
        ELSE IF Truthy(d, "elements") THEN NewDict(f, [k \in {"elements"} |-> d[k]])
        ELSE IF Truthy(d, "formula") THEN NewDict(f, [k \in {"formula"} |-> d[k]])
        ELSE NewDict(f, <<>>)

\* The attempts degrade_filters is called with: those of the search loop, and
\* one beyond them
DegradeAttempts == AttemptList \o <<Len(AttemptList) + 1>>

InitDegrade ==
    /\ stats = <<>>
    /\ target = 0
    /\ plan = <<>>
    /\ qpc = "idle"
    /\ IdleRequest
    /\ IdleFunctions
    /\ dg_impl \in {"router", "postprocessor"}
    /\ dg_original \in FilterDicts
    /\ dg_filters = dg_original
    /\ dg_attempt = 0
    /\ dg_out = NotCalled
    /\ oracle = NotCalled
    /\ IdleSave
    /\ IdleAuth

\* `attempt_filters = degrade_filters(filters, attempt)` for the next attempt
DegradeCall ==
    /\ dg_impl # "none"
    /\ dg_attempt < Len(DegradeAttempts)
    /\ LET att == DegradeAttempts[dg_attempt + 1]
           h == IF dg_impl = "router" THEN RouterDegradeFilters(<<dg_filters>>, 1, att)
                ELSE DegradeFilters(<<dg_filters>>, 1, att)
       IN  /\ dg_attempt' = att
           /\ dg_filters' = h.heap[1]
           /\ dg_out' = [kind |-> "dict", dict |-> h.heap[h.ref]]
    /\ UNCHANGED <<dg_impl, dg_original>>
    /\ UNCHANGED qvars
    /\ UNCHANGED rvars
    /\ UNCHANGED fvars
    /\ UNCHANGED ovars
    /\ UNCHANGED svars
    /\ UNCHANGED avars

NextDegrade == DegradeCall

SpecDegrade == InitDegrade /\ [][NextDegrade]_vars

\* ---------------------------------------------------------------------------
\* optimade_test: fetch_structures_with_filter, normalize_and_collect,
\* save_structures
\* ---------------------------------------------------------------------------
\* URLS_FROM_PROVIDERS, for two of the providers: the base URLs of each
ProviderUrls(p) == IF p = "alexandria" THEN <<"pbe", "pbesol">> ELSE <<"cod">>

\* The structures a URL may return: their id ("" when missing) and whether
\* writing them in the requested format succeeds
StructureKinds ==
    {[id |-> "a", ok |-> TRUE], [id |-> "a", ok |-> FALSE],
     [id |-> "b", ok |-> TRUE], [id |-> "", ok |-> TRUE]}

\* What _query_one returns for a provider: {"structures": {}} when the fetch
\* failed, else the data lists of its URLs under the one filter clause
ProviderResult(p, failed, lists) ==
    [provider |-> p, urls |-> IF failed THEN <<>> ELSE lists]

\* results_list for the providers used (one of them, or both in either order),
\* the structures s cut into the data lists of the three URLs
ResultsList(used, s, c1, c2, failA, failC) ==
    LET a == ProviderResult("alexandria", failA, <<SubSeq(s, 1, c1), SubSeq(s, c1 + 1, c2)>>)
        c == ProviderResult("cod", failC, <<SubSeq(s, c2 + 1, Len(s))>>)
    IN  IF used = "a" THEN <<a>>
        ELSE IF used = "c" THEN <<c>>
        ELSE IF used = "ac" THEN <<a, c>>
        ELSE <<c, a>>

SaveInputs ==
    {ResultsList(used, s, Min2(c[1], Len(s)), Min2(c[2], Len(s)), f[1], f[2]) :
        used \in {"a", "c", "ac", "ca"},
        s \in SeqsUpTo(StructureKinds, MaxStructs),
        c \in {d \in (0..MaxStructs) \X (0..MaxStructs) : d[1] <= d[2]},
        f \in BOOLEAN \X BOOLEAN}

\* normalize_and_collect: stats[clause][url] = len(data) for the URLs of every
\* result in order; all of them are under the one filter clause
RECURSIVE UrlCaps(_)
UrlCaps(rs) ==
    IF rs = <<>> THEN <<>>
    ELSE [u \in 1..Len(Head(rs).urls) |-> Len(Head(rs).urls[u])] \o UrlCaps(Tail(rs))

NormalizeAndCollect(rs) == IF UrlCaps(rs) = <<>> THEN <<>> ELSE <<UrlCaps(rs)>>

\* The position of URL u of result k among the URLs of the clause
UrlIndex(rs, k, u) == Len(UrlCaps(SubSeq(rs, 1, k - 1))) + u

\* int(plan.get(clause, {}).get(provider_url, 0))
PlanQuota(pl, j) == IF pl = <<>> THEN 0 ELSE pl[1][j]

\* `if saved >= quota: break`
SaveNeverStops(saved, quota) == FALSE

SaveStops(saved, quota) == saved >= quota

\* save_structures, the loop over data_list of one URL: skip a missing id and
\* an id already saved, write the file, count and remember the id only after a
\* successful write
RECURSIVE SaveData(_, _, _, _, _)
SaveData(data, quota, saved, acc, where) ==
    IF data = <<>> \/ SaveStops(saved, quota) THEN acc
    ELSE LET d == Head(data)
         IN  IF d.id = "" \/ d.id \in acc.seen_ids \/ ~d.ok
             THEN SaveData(Tail(data), quota, saved, acc, where)
             ELSE SaveData(Tail(data), quota, saved + 1,
                           [seen_ids |-> acc.seen_ids \cup {d.id},
                            files |-> Append(acc.files,
                                             [provider |-> where[1], url |-> where[2],
                                              id |-> d.id, saved |-> saved])],
                           where)

\* save_structures, the loop over the URLs of the clause: a URL is skipped
\* unless its quota is positive
RECURSIVE SaveUrls(_, _, _, _, _)
SaveUrls(rs, k, u, pl, acc) ==
    IF u > Len(rs[k].urls) THEN acc
    ELSE LET quota == PlanQuota(pl, UrlIndex(rs, k, u))
         IN  IF quota <= 0 THEN SaveUrls(rs, k, u + 1, pl, acc)
             ELSE SaveUrls(rs, k, u + 1, pl,
                           SaveData(rs[k].urls[u], quota, 0, acc,
                                    <<rs[k].provider, ProviderUrls(rs[k].provider)[u]>>))

\* save_structures(res, out_folder, as_cif, plan) for result k: the files list
SaveStructures(rs, k, pl) ==
    SaveUrls(rs, k, 1, pl, [seen_ids |-> {}, files |-> <<>>]).files

InitSave ==
    /\ stats = <<>>
    /\ target \in (0 - 1)..(MaxStructs + 1)
    /\ plan = <<>>
    /\ qpc = "collect"
    /\ IdleRequest
    /\ IdleFunctions
    /\ IdleDegrade
    /\ oracle = NotCalled
    /\ sv_results \in SaveInputs
    /\ sv_files = <<>>
    /\ IdleAuth

\* `norm_results, stats = normalize_and_collect(results_list)`
Collect ==
    /\ qpc = "collect"
    /\ stats' = NormalizeAndCollect(sv_results)
    /\ qpc' = "call"
    /\ UNCHANGED <<target, plan>>
    /\ UNCHANGED rvars
    /\ UNCHANGED fvars
    /\ UNCHANGED xvars
    /\ UNCHANGED ovars

\* `for res in norm_results: ... save_structures(res, out_folder, ..., plan)`:
\* the next call
SaveCall ==
    /\ qpc = "done"
    /\ Len(sv_files) < Len(sv_results)
    /\ sv_files' = Append(sv_files, SaveStructures(sv_results, Len(sv_files) + 1, plan))
    /\ UNCHANGED sv_results
    /\ UNCHANGED dvars
    /\ UNCHANGED avars
    /\ UNCHANGED qvars
    /\ UNCHANGED rvars
    /\ UNCHANGED fvars
    /\ UNCHANGED ovars

NextSave == Collect \/ Allocate \/ SaveCall

SpecSave == InitSave /\ [][NextSave]_vars

\* ---------------------------------------------------------------------------
\* core/server.py: _MCPStreamableHttpProxy
\* ---------------------------------------------------------------------------
\* The bytes of a value sent by a client: two characters, a space, and a byte
\* that is not valid UTF-8
RequestBytes == {"s", "t", " ", "0xFF"}

\* bytes.decode("utf-8", errors="ignore"): the invalid bytes are dropped
DecodeIgnoringErrors(bytes) == SelectSeq(bytes, LAMBDA b : b # "0xFF")

\* str.strip() for the whitespace of the alphabet
RECURSIVE LStrip(_)
LStrip(s) == IF s # <<>> /\ Head(s) = " " THEN LStrip(Tail(s)) ELSE s

RECURSIVE RStrip(_)
RStrip(s) ==
    IF s # <<>> /\ s[Len(s)] = " " THEN RStrip(SubSeq(s, 1, Len(s) - 1)) ELSE s

Strip(s) == RStrip(LStrip(s))

\* A token value that is there
Token(v) == [present |-> TRUE, scheme |-> "", value |-> v]

\* _extract_token: the first non-blank `token` of the decoded query string,
\* else the stripped value of an Authorization header whose scheme is bearer
\* (any case), None when that is empty or there is no such header
ExtractToken(query, header) ==
    LET q == DecodeIgnoringErrors(query.value)
        t == Strip(DecodeIgnoringErrors(header.value))
    IN  IF query.present /\ q # <<>> THEN Token(q)
        ELSE IF header.present /\ header.scheme = "bearer" /\ t # <<>> THEN Token(t)
        ELSE Absent

\* MR_DICE_MCP_TOKEN or None: stripped, so without surrounding whitespace
ConfiguredTokens ==
    {Absent} \cup {Token(v) : v \in SeqsUpTo({"s", "t"}, MaxBytes) \ {<<>>}}

\* `?token=<bytes>` in the query string, or no such parameter
QueryTokens ==
    {Absent} \cup {Token(v) : v \in SeqsUpTo(RequestBytes, MaxBytes)}

\* `Authorization: <scheme> <bytes>`, or no such header
AuthHeaders ==
    {Absent} \cup {[present |-> TRUE, scheme |-> sch, value |-> v] :
                      sch \in {"bearer", "basic"}, v \in SeqsUpTo(RequestBytes, MaxBytes)}

InitAuth ==
    /\ stats = <<>>
    /\ target = 0
    /\ plan = <<>>
    /\ qpc = "idle"
    /\ IdleRequest
    /\ IdleFunctions
    /\ IdleDegrade
    /\ IdleSave
    /\ oracle = NotCalled
    /\ au_token \in ConfiguredTokens
    /\ au_query \in QueryTokens
    /\ au_header \in AuthHeaders
    /\ au_outcome = "none"

\* _MCPStreamableHttpProxy.__call__: 401 when a token is configured and the
\* extracted one is not equal to it, else the request goes to the inner app
ProxyCall ==
    /\ au_outcome = "none"
    /\ au_outcome' = IF au_token.present /\ ExtractToken(au_query, au_header) # au_token
                     THEN "401"
                     ELSE "forwarded"
    /\ UNCHANGED <<au_token, au_query, au_header>>
    /\ UNCHANGED dvars
    /\ UNCHANGED svars
    /\ UNCHANGED qvars
    /\ UNCHANGED rvars
    /\ UNCHANGED fvars
    /\ UNCHANGED ovars

NextAuth == ProxyCall

SpecAuth == InitAuth /\ [][NextAuth]_vars

\* ---------------------------------------------------------------------------
\* Properties of distribute_quota_fair
\* ---------------------------------------------------------------------------
\* plan.get(c, {}).get(u, 0): the quota of sub-resource u of source c
Quota(c, u) == IF plan = <<>> THEN 0 ELSE plan[c][u]

SourceTotal(c) == SumSeq([u \in 1..Len(stats[c]) |-> Quota(c, u)])

PlanSum == SumSeq([c \in 1..Len(stats) |-> SourceTotal(c)])

TotalCapacity == SumSeq(ClauseCaps(stats))

\* C1: for every capacity table and every target K >= 0 the quotas of the
\* returned plan sum to exactly min(K, sum of all capacities).
C1_Conservation ==
    (qpc = "done" /\ target >= 0) => PlanSum = Min2(target, TotalCapacity)

\* C1 witness: a returned plan for a target the capacity cannot meet, over
\* several sources, one of them with two sub-resources.
C1_Witness ==
    /\ qpc = "done"
    /\ Len(stats) >= 2
    /\ \E c \in 1..Len(stats) : Len(stats[c]) >= 2
    /\ TotalCapacity > 0
    /\ target > TotalCapacity
    /\ PlanSum = TotalCapacity

\* C2 (as stated): capacities {alpha: 5, beta: 3}, target 6 give a plan summing
\* to 6 with alpha = 4 and beta = 2.
C2_Original ==
    (qpc = "done" /\ <<stats, target>> = ScenarioInput)
        => (PlanSum = 6 /\ Quota(1, 1) = 4 /\ Quota(2, 1) = 2)

\* C2 (amended): capacities {alpha: 5, beta: 3}, target 6 give a plan summing
\* to 6 with alpha = 3 and beta = 3.
C2_Scenario ==
    (qpc = "done" /\ <<stats, target>> = ScenarioInput)
        => (PlanSum = 6 /\ Quota(1, 1) = 3 /\ Quota(2, 1) = 3)

\* C2 witness: the scenario has been allocated.
C2_Witness ==
    /\ qpc = "done"
    /\ <<stats, target>> = ScenarioInput
    /\ plan # <<>>

\* C3: every quota q of a returned plan satisfies 0 <= q <= capacity of its
\* sub-resource, and a source of total capacity zero gets 0 everywhere.
C3_WithinCapacity ==
    qpc = "done" =>
        \A c \in 1..Len(stats) :
            /\ \A u \in 1..Len(stats[c]) : Quota(c, u) >= 0 /\ Quota(c, u) <= stats[c][u]
            /\ (SumSeq(stats[c]) = 0 => \A u \in 1..Len(stats[c]) : Quota(c, u) = 0)

\* C3 witness: a non-empty plan in which one source has no capacity, another
\* holds a sub-resource of capacity zero next to one filled to its capacity.
C3_Witness ==
    /\ qpc = "done"
    /\ plan # <<>>
    /\ \E c \in 1..Len(stats) : SumSeq(stats[c]) = 0
    /\ \E c \in 1..Len(stats) : \E u, v \in 1..Len(stats[c]) :
            /\ stats[c][u] = 0
            /\ stats[c][v] > 0
            /\ Quota(c, v) = stats[c][v]

\* C4: with two sources whose total capacities are both at least K/2, the two
\* per-source totals of the plan for target K differ by at most 1.
C4_TwoSourceFair ==
    (/\ qpc = "done"
     /\ Len(stats) = 2
     /\ 2 * SumSeq(stats[1]) >= target
     /\ 2 * SumSeq(stats[2]) >= target)
        => /\ SourceTotal(1) - SourceTotal(2) <= 1
           /\ SourceTotal(2) - SourceTotal(1) <= 1

\* C4 witness: two sources of unequal capacity, both at least K/2, odd K.
C4_Witness ==
    /\ qpc = "done"
    /\ Len(stats) = 2
    /\ target > 2
    /\ target % 2 = 1
    /\ 2 * SumSeq(stats[1]) >= target
    /\ 2 * SumSeq(stats[2]) >= target
    /\ SumSeq(stats[1]) > SumSeq(stats[2])
    /\ SourceTotal(1) = SourceTotal(2) + 1

\* ---------------------------------------------------------------------------
\* Properties of the fan-out executor
\* ---------------------------------------------------------------------------
\* C6: a returned fan-out call has a results entry for every requested source:
\* the empty list for each source whose retriever raised, the retriever's own
\* list for each source whose retriever returned; the error map has an entry
\* for exactly the sources whose retriever raised.
C6_FailureIsolation ==
    \A o \in 1..Len(calls) :
        calls[o].returned =>
            /\ DOMAIN calls[o].db_results = {db_names[i] : i \in 1..Len(db_names)}
            /\ \A i \in 1..Len(db_names) :
                 LET t == calls[o].tasks[i]
                     db == db_names[i]
                 IN  /\ t.raised => /\ calls[o].db_results[db] = <<>>
                                    /\ db \in DOMAIN calls[o].db_errors
                                    /\ calls[o].db_errors[db] = t.msg
                     /\ ~t.raised => /\ calls[o].db_results[db] = t.results
                                     /\ db \notin DOMAIN calls[o].db_errors

\* C6 witness: the first source raised, the second returned a full list, and
\* the call returned errors = {first: msg}, results = {first: [], second: list}.
C6_Witness ==
    /\ Len(calls) = 1
    /\ calls[1].returned
    /\ db_names = <<"bohriumpublic", "optimade">>
    /\ calls[1].tasks[1].raised
    /\ Len(calls[1].tasks[2].results) = MaxItems
    /\ DOMAIN calls[1].db_errors = {"bohriumpublic"}
    /\ calls[1].db_results["bohriumpublic"] = <<>>
    /\ Len(calls[1].db_results["optimade"]) = MaxItems

\* C7: a fan-out call has returned only if every per-source task of that call
\* has completed, whatever the order of completions.
C7_JoinAll ==
    \A o \in 1..Len(calls) :
        calls[o].returned =>
            \A i \in 1..Len(calls[o].tasks) : calls[o].tasks[i].st = "done"

\* C7 witness: a call returned after one of its tasks raised and another one
\* delivered results, while a task of a sibling call is still running.
C7_Witness ==
    /\ Len(calls) = 2
    /\ calls[1].returned
    /\ Len(calls[1].tasks) = 2
    /\ \E i, j \in 1..2 : /\ calls[1].tasks[i].raised
                          /\ calls[1].tasks[j].results # <<>>
    /\ \E i \in 1..2 : calls[2].tasks[i].st = "running"

\* ---------------------------------------------------------------------------
\* Properties of the request handlers
\* ---------------------------------------------------------------------------
\* Identity of a result: (source, id), or (source, name) when the id is empty
DedupKey(r) == IF r.id # "" THEN <<r.source, "id", r.id>> ELSE <<r.source, "name", r.name>>

\* C8: the results list of every response of fetch_structures_from_db holds no
\* two entries with the same identity.
C8_NoDuplicates ==
    (entry = "fetch" /\ response.kind = "response") =>
        \A i, j \in 1..Len(response.results) :
            i # j => DedupKey(response.results[i]) # DedupKey(response.results[j])

\* C9: the degrade loop runs at most 3 attempts and has returned after the
\* third; fetch_structures_from_db starts at most 2 fan-out rounds.
C9_BoundedAttempts ==
    /\ attempt <= 3
    /\ Len(log) <= 3
    /\ (attempt = 3 => pc \in {"done", "raised"})
    /\ round <= 2
    /\ (entry = "fetch" => Len(log) <= 2)

\* C9 witness: three attempts, none with results, and the request returned.
C9_Witness ==
    /\ entry = "mrdice"
    /\ \E k \in 1..Len(routes) : routes[k] = "bohriumpublic"
    /\ attempt = 3
    /\ log = <<0, 0, 0>>
    /\ response.kind = "response"

\* C10: no attempt is started after one that returned results, and the
\* response reports the level and the result count of that attempt.
C10_StopAtFirstResult ==
    (response.kind = "response" /\ log # <<>>) =>
        /\ \A i \in 1..(Len(log) - 1) : log[i] = 0
        /\ log[Len(log)] > 0 =>
              /\ response.fallback_level = Len(log) - 1
              /\ response.n_found = log[Len(log)]

\* C10 witness: levels 0 and 1 returned nothing, level 2 returned 4 results,
\* and the response has fallback_level = 2 and n_found = 4.
C10_Witness ==
    /\ entry = "mrdice"
    /\ log = <<0, 0, 4>>
    /\ response.kind = "response"
    /\ response.fallback_level = 2
    /\ response.n_found = 4

\* C11: a response after attempts that all returned zero results has an empty
\* results list and reports the level of the last attempt that was run.
C11_ExhaustedReportsMax ==
    (/\ response.kind = "response"
     /\ log # <<>>
     /\ \A i \in 1..Len(log) : log[i] = 0)
        => /\ response.results = <<>>
           /\ response.fallback_level = Len(log) - 1

\* C12: the normalized target K is between 1 and MAX_N_RESULTS; a response
\* returns at most K results, each of them one of the results found; a
\* single-source request returns exactly min(K, number of results supplied).
C12_NoPadding ==
    /\ n_results <= MAX_N_RESULTS
    /\ response.kind = "response" =>
          /\ response.returned = Len(response.results)
          /\ response.returned <= n_results
          /\ \A i \in 1..Len(response.results) :
                 \E j \in 1..Len(all_results) : all_results[j] = response.results[i]
          /\ Len(db_names) <= 1 =>
                 response.returned = Min2(n_results, Len(all_results))
          /\ (entry = "fetch" /\ Len(db_names) = 1 /\ elements_options = <<>> /\ log # <<>>) =>
                 response.returned = Min2(n_results, Len(calls[1].tasks[1].results))

\* C12 witness: K = 5 requested from a single source that supplied 4 results:
\* 4 are returned.
C12_Witness ==
    /\ entry = "mrdice"
    /\ n_results = 5
    /\ log = <<4>>
    /\ response.kind = "response"
    /\ response.returned = 4

\* ---------------------------------------------------------------------------
\* Properties of _take_n_results_with_sources
\* ---------------------------------------------------------------------------
\* The requested sources that have a result in the ranked list, in db_names order
RECURSIVE PresentFrom(_)
PresentFrom(k) ==
    IF k > Len(sel_names) THEN <<>>
    ELSE (IF \E i \in 1..Len(sel_ranked) : sel_ranked[i].source = sel_names[k]
          THEN <<sel_names[k]>> ELSE <<>>) \o PresentFrom(k + 1)

\* The top-ranked result of source db
TopOf(db) == sel_ranked[SetMin({i \in 1..Len(sel_ranked) : sel_ranked[i].source = db})]

C14_StatusNeverConflated ==
    (entry = "fetch" /\ response.kind = "response" /\ log # <<>>) =>
        LET found == response.n_found > 0
            failed == DOMAIN response.errors # {}
        IN  /\ (response.code = 0) <=> (found /\ ~failed)
            /\ (response.code = 1) <=> (found /\ failed)
            /\ (response.code \in {0 - 9999, 0 - 9998}) <=> ~found

\* ---------------------------------------------------------------------------
\* Properties of the error handling
\* ---------------------------------------------------------------------------
\* C15: fetch_structures_from_db starts the relaxed retry only if no source of
\* the strict round failed with an error classified (from its message) as a
\* network error or a logic error.
C15_NoRetryAfterFailure ==
    (entry = "fetch" /\ round = 2) =>
        \A db \in (DOMAIN errors) \ {"relaxed_search"} :
            ClassifyErrorType([msg |-> errors[db], class |-> ""])
                \notin {"network_error", "logic_error"}

\* C16: for an error classified as invalid parameters, handle_search_error
\* calls correct_parameters exactly once; a correction is returned with
\* should_retry true, and without a correction should_retry is true as well.
C16_CorrectOnceThenDegrade ==
    (hse_ret # NotCalled /\ ClassifyError(hse_error, hse_results) = "invalid_params") =>
        /\ hse_calls = 1
        /\ hse_reply.kind = "corrected" =>
               (hse_ret.params = <<hse_reply.filters>> /\ hse_ret.should_retry)
        /\ hse_reply.kind # "corrected" => hse_ret.should_retry

\* C17: every source whose retrieval failed has an entry in the error map the
\* fan-out call returns, and in the error map of the response built from that
\* round.
C17_FailureRecorded ==
    /\ \A o \in 1..Len(calls) :
           calls[o].returned =>
               \A i \in 1..Len(db_names) :
                   calls[o].tasks[i].failed => db_names[i] \in DOMAIN calls[o].db_errors
    /\ (entry = "fetch" /\ response.kind = "response" /\ round = 1) =>
           \A o \in 1..Len(calls) : \A i \in 1..Len(db_names) :
               calls[o].tasks[i].failed => db_names[i] \in DOMAIN response.errors

\* ---------------------------------------------------------------------------
\* Further properties of distribute_quota_fair
\* ---------------------------------------------------------------------------
\* C18 (as stated): the returned plan is the empty mapping when target <= 0,
\* and also when no source has nonzero total capacity.
C18_Original ==
    (qpc = "done" /\ (target <= 0 \/ ActiveClauses(stats) = <<>>)) => plan = <<>>

\* C18 (amended): the returned plan is the empty mapping when target <= 0 or
\* the capacity table is empty; for a positive target and a non-empty table in
\* which no source has nonzero total capacity it has an entry for every
\* sub-resource of every source, each with quota 0.
C18_EmptyOrZeroPlan ==
    qpc = "done" =>
        /\ (target <= 0 \/ stats = <<>>) => plan = <<>>
        /\ (target > 0 /\ stats # <<>> /\ ActiveClauses(stats) = <<>>) =>
               /\ DOMAIN plan = 1..Len(stats)
               /\ \A c \in 1..Len(stats) :
                      /\ DOMAIN plan[c] = 1..Len(stats[c])
                      /\ \A u \in 1..Len(stats[c]) : plan[c][u] = 0

\* C18 witness: a positive target over two sources without capacity, one of
\* them with two sub-resources, answered by a plan with three zero entries.
C18_Witness ==
    /\ qpc = "done"
    /\ target > 0
    /\ Len(stats) = 2
    /\ Len(stats[1]) = 2
    /\ ActiveClauses(stats) = <<>>
    /\ plan = <<<<0, 0>>, <<0>>>>

\* C19: in every returned plan a source whose total quota is below its total
\* capacity has a total of at least the total of every other source minus 1.
C19_MaxMinFairSources ==
    qpc = "done" =>
        \A c, d \in 1..Len(stats) :
            SourceTotal(c) < SumSeq(stats[c]) => SourceTotal(c) >= SourceTotal(d) - 1

\* C19 witness: three or more sources, the clause-level water-filling changed
\* the plan, and a source with spare capacity holds at least two units more
\* than a source that is filled to its (smaller) capacity.
C19_Witness ==
    /\ qpc = "done"
    /\ Len(stats) >= 3
    /\ plan # <<>>
    /\ plan # PlanAfterStep2(stats, target)
    /\ \E c, e \in 1..Len(stats) :
           /\ SourceTotal(c) < SumSeq(stats[c])
           /\ SumSeq(stats[e]) > 0
           /\ SourceTotal(e) = SumSeq(stats[e])
           /\ SourceTotal(e) + 1 < SourceTotal(c)

\* C20: in every returned plan a sub-resource whose quota is below its capacity
\* has a quota of at least the quota of every other sub-resource of the same
\* source minus 1.
C20_FairWithinSource ==
    qpc = "done" =>
        \A c \in 1..Len(stats) : \A u, v \in 1..Len(stats[c]) :
            Quota(c, u) < stats[c][u] => Quota(c, u) >= Quota(c, v) - 1

\* ---------------------------------------------------------------------------
\* Properties of merging and ranking
\* ---------------------------------------------------------------------------
\* The results source db supplied in the round whose calls are in `calls`: the
\* lists of all its fan-out calls, one after the other
RECURSIVE SuppliedBy(_, _)
SuppliedBy(db, o) ==
    IF o > Len(calls) THEN <<>>
    ELSE Get(calls[o].db_results, db, <<>>) \o SuppliedBy(db, o + 1)

\* The results of source db in all_results, in order
FromSource(db) == SelectSeq(all_results, LAMBDA r : r.source = db)

\* The position of all_results[p] among the results of its own source
RankInSource(p) ==
    Cardinality({q \in 1..p : all_results[q].source = all_results[p].source})

\* The position of a source in db_names
SourceIndex(db) == CHOOSE i \in 1..Len(db_names) : db_names[i] = db

\* C21: when a request to several sources has returned, the list that was
\* ranked holds for each source exactly the results that source supplied in
\* the last round, in their order; the k-th result of a source precedes the
\* (k+1)-th result of every source; within one round the sources appear in
\* db_names order.
C21_RoundRobinInterleave ==
    (entry = "fetch" /\ pc = "done" /\ log # <<>> /\ Len(db_names) > 1) =>
        /\ \A i \in 1..Len(db_names) : FromSource(db_names[i]) = SuppliedBy(db_names[i], 1)
        /\ \A p, q \in 1..Len(all_results) :
               /\ RankInSource(p) < RankInSource(q) => p < q
               /\ (/\ RankInSource(p) = RankInSource(q)
                   /\ SourceIndex(all_results[p].source) < SourceIndex(all_results[q].source))
                      => p < q

\* The list rank_results returns for the request that has just been answered
RankedList == RankResults(all_results, filters)

WithScore(s, v) == SelectSeq(s, LAMBDA r : ScoreResult(r, filters) = v)

\* C22: rank_results returns a permutation of its input in non-increasing score
\* order, and results of equal score keep their input order (for every score, the
\* results of that score form the same sequence before and after ranking)
C22_StableDescendingRank ==
    (pc = "done" /\ response.kind = "response") =>
        /\ Len(RankedList) = Len(all_results)
        /\ \A i \in 1..(Len(RankedList) - 1) :
               ScoreResult(RankedList[i], filters) >= ScoreResult(RankedList[i + 1], filters)
        /\ \A v \in {ScoreResult(all_results[i], filters) : i \in 1..Len(all_results)} :
               WithScore(RankedList, v) = WithScore(all_results, v)

\* a ranking that moved a result forward and kept two distinct tied results
C22_Witness ==
    /\ pc = "done"
    /\ response.kind = "response"
    /\ RankedList # all_results
    /\ \E i, j \in 1..Len(RankedList) :
           /\ i < j
           /\ RankedList[i] # RankedList[j]
           /\ ScoreResult(RankedList[i], filters) = ScoreResult(RankedList[j], filters)

\* C23: degrade_filters leaves the caller's filters as they were, so every level
\* is computed from the original filters; attempt 2 returns them with band_gap,
\* space_group and time_range cleared and formula and elements as they were;
\* attempt 3 returns exactly the formula and elements items of the original
C23_DegradeFromOriginal ==
    dg_out # NotCalled =>
        /\ dg_filters = dg_original
        /\ dg_attempt = 2 =>
               /\ dg_out.dict["band_gap"] = [min |-> NoneValue, max |-> NoneValue]
               /\ dg_out.dict["space_group"] = NoneValue
               /\ dg_out.dict["time_range"] = [start |-> NoneValue, end |-> NoneValue]
               /\ \A k \in {"formula", "elements"} :
                      /\ k \in DOMAIN dg_out.dict <=> k \in DOMAIN dg_original
                      /\ k \in DOMAIN dg_original => dg_out.dict[k] = dg_original[k]
        /\ dg_attempt = 3 =>
               /\ DOMAIN dg_out.dict = (DOMAIN dg_original) \cap {"formula", "elements"}
               /\ \A k \in DOMAIN dg_out.dict : dg_out.dict[k] = dg_original[k]

\* attempt 3 answered after attempt 2 cleared filters the caller had set
C23_Witness ==
    /\ dg_attempt = 3
    /\ dg_out # NotCalled
    /\ {"formula", "band_gap", "space_group", "energy"} \subseteq DOMAIN dg_original
    /\ dg_out.dict = [k \in {"formula"} |-> "F"]

\* C24: the element-only retry of fetch_structures_from_db (round 2, with the
\* oracle's filters) starts only after three search levels (strict, relaxed
\* numeric, minimal) have each run and found nothing: it is never the first
\* retry after the strict search
C24_RescueAfterThreeLevels ==
    (entry = "fetch" /\ round = 2) =>
        /\ Len(log) >= Len(AttemptList)
        /\ \A i \in 1..Len(AttemptList) : log[i] = 0

\* C25: a failure of the oracle is never fatal: when the LLM call fails, its
\* reply is malformed or holds no element list, fetch_structures_from_db does not
\* raise, starts no second fan-out and returns the response of the strict round
C25_OracleFailureNotFatal ==
    (entry = "fetch" /\ oracle # NotCalled /\ oracle.kind # "elements") =>
        /\ pc = "done"
        /\ round = 1
        /\ response.kind = "response"
        /\ response.fallback_level = 0
        /\ response.n_found = 0

\* C26: once the caller has cancelled during a fan-out round, no per-source
\* retrieval of that round runs on to completion, no further round is started
\* and no response is built
C26_CancellationStopsRetrievals ==
    pc = "cancelled" =>
        /\ \A o \in 1..Len(calls) : \A i \in 1..Len(db_names) :
               calls[o].tasks[i].st # "finished"
        /\ response = NoResponse
        /\ Len(log) = round - 1

\* C27: the results of every response are in non-increasing order of their
\* ranking score, also when several sources were queried and each of them is
\* given a place in the list
C27_ResponseInScoreOrder ==
    (pc = "done" /\ response.kind = "response") =>
        \A i \in 1..(Len(response.results) - 1) :
            ScoreResult(response.results[i], filters)
                >= ScoreResult(response.results[i + 1], filters)

\* every requested source is a name without a registered retriever
AllUnknown == entry = "fetch" /\ \A i \in 1..Len(db_names) : ~HasRetriever(db_names[i])

\* C28: a requested name without a registered retriever gives an empty list and
\* no entry in the error map, and a request whose sources are all such names
\* ends with the "No results" response (code -9999) and an empty error map
C28_UnknownSourcesEndAsNoResults ==
    /\ (entry = "fetch" /\ pc = "gather") =>
           \A o \in 1..Len(calls) : \A i \in 1..Len(db_names) :
               (calls[o].tasks[i].st = "done" /\ ~HasRetriever(db_names[i])) =>
                   (calls[o].tasks[i].results = <<>> /\ ~calls[o].tasks[i].raised)
    /\ (AllUnknown /\ log # <<>> /\ pc \in {"done", "raised"}) =>
           /\ pc = "done"
           /\ response.code = 0 - 9999
           /\ response.errors = <<>>
           /\ response.results = <<>>

\* The files a save_structures call wrote for one URL, and all files of the request
FilesFor(k, u) ==
    SelectSeq(sv_files[k],
              LAMBDA f : /\ f.provider = sv_results[k].provider
                         /\ f.url = ProviderUrls(sv_results[k].provider)[u])

TotalSaved == SumSeq([k \in 1..Len(sv_files) |-> Len(sv_files[k])])

\* every save_structures call so far kept to the per-URL quotas of the plan,
\* wrote nothing for a URL without a positive quota and wrote no id twice
SavedWithinQuotas ==
    \A k \in 1..Len(sv_files) :
        /\ \A u \in 1..Len(sv_results[k].urls) :
               Len(FilesFor(k, u)) <= Max2(PlanQuota(plan, UrlIndex(sv_results, k, u)), 0)
        /\ \A i, j \in 1..Len(sv_files[k]) :
               i # j => sv_files[k][i].id # sv_files[k][j].id

\* C29 as stated: save_structures writes at most plan[clause][url] structures
\* per (clause, URL), none for a URL without a positive quota and each id at most
\* once per call, and the structures saved by one fetch_structures_with_filter
\* request never exceed n_results
C29_Original ==
    qpc = "done" => (SavedWithinQuotas /\ TotalSaved <= target)

\* C29, amended: as above, with the total bounded by max(n_results, 0): nothing
\* is saved when n_results <= 0
C29_SavedWithinPlan ==
    qpc = "done" => (SavedWithinQuotas /\ TotalSaved <= Max2(target, 0))

\* save_structures ran for both providers; a URL offered more than its quota,
\* among it one id twice: the id was written once and the quota was filled
C29_Witness ==
    /\ qpc = "done"
    /\ Len(sv_results) = 2
    /\ Len(sv_files) = 2
    /\ TotalSaved = target
    /\ \E k \in 1..2 : \E u \in 1..Len(sv_results[k].urls) :
           LET data == sv_results[k].urls[u]
               quota == PlanQuota(plan, UrlIndex(sv_results, k, u))
           IN  /\ quota >= 2
               /\ Len(data) > quota
               /\ data[1].id = data[2].id
               /\ Len(FilesFor(k, u)) = quota

\* The token a request presents: the `token` of its query string when there is
\* one, else the value after `Bearer` of its Authorization header (without the
\* whitespace around it), as the bytes the client sent
Presented ==
    IF au_query.present /\ au_query.value # <<>> THEN Token(au_query.value)
    ELSE IF au_header.present /\ au_header.scheme = "bearer" /\ Strip(au_header.value) # <<>>
         THEN Token(Strip(au_header.value))
         ELSE Absent

\* C30: with a token configured, a request whose presented token is missing or
\* differs from the configured one is answered 401 and not forwarded; only a
\* request presenting exactly the configured token is forwarded
C30_OnlyExactTokenForwarded ==
    (au_token.present /\ au_outcome # "none") =>
        (au_outcome = "forwarded" <=> Presented = au_token)

====
